---- MODULE Spec2Model ----
(***************************************************************************)
(* Model of the escape-room countdown component (src/src/App.jsx; the      *)
(* earlier revision src/unnamed/part_000 is the same component without the *)
(* trap socket listener).                                                  *)
(*                                                                         *)
(* Numbers.  JavaScript numbers are modelled in fixed point so that a      *)
(* fractional duration is representable with integers:                     *)
(*   - a duration (minutes) is an integer count of hundredths of a minute; *)
(*   - a time (seconds) is an integer count of tenths of a second.         *)
(* Min(n) and Sec(n) write n minutes and n seconds in these units.         *)
(*                                                                         *)
(* React.  A state setter called from a timer or an effect queues an       *)
(* update; a later render commits the queued updates; a passive effect     *)
(* (useEffect) whose dependencies changed runs after the commit and always *)
(* before the next render.  The interval callback, the render and the      *)
(* effect are therefore three separate steps.  A click handler's updates   *)
(* are committed at the end of the handler.                                *)
(***************************************************************************)
EXTENDS Integers, Sequences, FiniteSets

VARIABLES
    duration,       \* useState(60): minutes, in hundredths of a minute
    selectedCues,   \* useState([]): the selected cue ids
    timeLeft,       \* useState(0): seconds, in tenths of a second
    running,        \* useState(false)
    trapMessages,   \* useState([]): messages received from the trap socket
    intervalRef,    \* useRef(null): handle of the interval timer (0 = null)
    mainAudioRef,   \* useRef(null): state of the main track
    cueScheduleRef, \* useRef({}): cue id -> trigger time
    playedCuesRef,  \* useRef(new Set()): cue ids already played
    cueAudioRefs,   \* useRef({}): cue ids that have a cached Audio object
    timers,         \* the browser's list of active interval handles
    nextHandle,     \* number of setInterval calls so far (handles are 1, 2, ...)
    pendingTicks,   \* queued setTimeLeft(prev => prev - 1) updates
    pendingStop,    \* a queued setRunning(false) update
    effectPending,  \* the cue effect is scheduled and has not run yet
    playCount,      \* observation: calls of cueAudio.play() per cue id in the current run
    trapSoundPlays, \* observation: calls of trapSound.play()
    socketConnected, \* the trap socket created by io(...) is connected
    brokenAudio,    \* environment: cue ids whose play() promise is rejected
    playFailed      \* observation: cue ids whose .catch handler ran in the current run

vars == <<duration, selectedCues, timeLeft, running, trapMessages, intervalRef,
          mainAudioRef, cueScheduleRef, playedCuesRef, cueAudioRefs, timers,
          nextHandle, pendingTicks, pendingStop, effectPending, playCount,
          trapSoundPlays, socketConnected, brokenAudio, playFailed>>

----------------------------------------------------------------------------
(* Bounds of the exploration *)

\* starts (setInterval calls) explored in one session
MaxRuns == 2
\* interval callbacks that may queue up before a render commits them
MaxPending == 2
\* seconds below zero a countdown that missed zero is followed
MaxOverrun == 2
\* longest run explored, in seconds
MaxRunSeconds == 60
\* trap messages received in one session
MaxTrapMessages == 2

----------------------------------------------------------------------------
(* Fixed-point units *)

Sec(n) == n * 10
Min(n) == n * 100

----------------------------------------------------------------------------
(* Cue ids are strings; they are modelled as sequences of characters so    *)
(* that the regular expression and parseInt are computed.                  *)

Id40min == <<"4", "0", "m", "i", "n">>
Id30min == <<"3", "0", "m", "i", "n">>
Id10min == <<"1", "0", "m", "i", "n">>
Id5min == <<"5", "m", "i", "n">>
IdBlackout == <<"b", "l", "a", "c", "k", "o", "u", "t">>
IdGameover == <<"g", "a", "m", "e", "o", "v", "e", "r">>

CUE_OPTIONS == <<Id40min, Id30min, Id10min, Id5min, IdBlackout, IdGameover>>

CueIds == {CUE_OPTIONS[i] : i \in 1..Len(CUE_OPTIONS)}

DigitChars == <<"0", "1", "2", "3", "4", "5", "6", "7", "8", "9">>

IsDigit(ch) == \E i \in 1..Len(DigitChars) : DigitChars[i] = ch

DigitValue(ch) == (CHOOSE i \in 1..Len(DigitChars) : DigitChars[i] = ch) - 1

Match_Unanchored(cueId) ==
    LET n == Len(cueId)
        starts == {k \in 1..(n - 3) : \A i \in k..(n - 3) : IsDigit(cueId[i])}
    IN
    IF /\ n >= 4
       /\ SubSeq(cueId, n - 2, n) = <<"m", "i", "n">>
       /\ starts # {}
    THEN SubSeq(cueId, CHOOSE k \in starts : \A j \in starts : k <= j, n - 3)
    ELSE <<>>

\* cueId.match(/^([0-9]+)min$/): the captured digits, or <<>> when there is no match
Match(cueId) ==
    LET n == Len(cueId) IN
    IF /\ n >= 4
       /\ SubSeq(cueId, n - 2, n) = <<"m", "i", "n">>
       /\ \A i \in 1..(n - 3) : IsDigit(cueId[i])
    THEN SubSeq(cueId, 1, n - 3)
    ELSE <<>>

RECURSIVE ParseInt(_)
\* parseInt(digits, 10)
ParseInt(digits) ==
    IF digits = <<>> THEN 0
    ELSE ParseInt(SubSeq(digits, 1, Len(digits) - 1)) * 10 + DigitValue(digits[Len(digits)])

\* does the forEach body assign schedule[cueId]?
Scheduled(cueId) ==
    \/ cueId = IdBlackout
    \/ cueId = IdGameover
    \/ Match(cueId) # <<>>

TriggerAt_Negative(cueId) ==
    IF cueId = IdBlackout THEN Sec(60)
    ELSE IF cueId = IdGameover THEN Sec(0 - 5)
    ELSE Sec(ParseInt(Match(cueId)) * 60)

\* the value the forEach body assigns to schedule[cueId]
TriggerAt(cueId) ==
    IF cueId = IdBlackout THEN Sec(60)
    ELSE IF cueId = IdGameover THEN Sec(5)
    ELSE Sec(ParseInt(Match(cueId)) * 60)

BuildSchedule_Merge(selected) ==
    [c \in DOMAIN cueScheduleRef \cup {s \in selected : Scheduled(s)} |-> TriggerAt(c)]

\* the schedule object built by handleStart
BuildSchedule(selected) ==
    [c \in {s \in selected : Scheduled(s)} |-> TriggerAt(c)]

\* const totalSeconds = duration * 60
TotalSeconds(d) == (d * 60 * 10) \div 100

----------------------------------------------------------------------------
(* The duration input: the texts tried, each with Number(text), which is   *)
(* NaN (nan) or a number of minutes in hundredths of a minute.             *)

DurationInputs ==
    { [text |-> "",     nan |-> FALSE, number |-> 0],
      [text |-> "abc",  nan |-> TRUE,  number |-> 0],
      [text |-> "-1",   nan |-> FALSE, number |-> Min(0 - 1)],
      [text |-> "0",    nan |-> FALSE, number |-> 0],
      [text |-> "0.01", nan |-> FALSE, number |-> 1],
      [text |-> "0.5",  nan |-> FALSE, number |-> 50],
      [text |-> "1",    nan |-> FALSE, number |-> Min(1)] }

Positive_OrZero(value) == ~value.nan /\ value.number >= 0

\* value > 0, which is false when value is NaN
Positive(value) == ~value.nan /\ value.number > 0

\* the checkboxes clicked in the explored sessions
ToggledCues == {Id5min, IdBlackout, IdGameover}

\* the payloads of the trap_triggered events delivered
TrapPayloads == {"door", "laser"}

\* the inputs of the sessions explored together with the trap socket
TrapRunCues == {IdGameover}

TrapRunInputs == {input \in DurationInputs : input.text \in {"abc", "0.5"}}

----------------------------------------------------------------------------
Init ==
    /\ duration = Min(60)
    /\ selectedCues = {}
    /\ timeLeft = 0
    /\ running = FALSE
    /\ trapMessages = <<>>
    /\ intervalRef = 0
    /\ mainAudioRef = "null"
    /\ cueScheduleRef = [c \in {} |-> 0]
    /\ playedCuesRef = {}
    /\ cueAudioRefs = {}
    /\ timers = {}
    /\ nextHandle = 0
    /\ pendingTicks = 0
    /\ pendingStop = FALSE
    /\ effectPending = FALSE
    /\ playCount = [c \in CueIds |-> 0]
    /\ trapSoundPlays = 0
    /\ socketConnected = FALSE
    /\ brokenAudio = {}
    /\ playFailed = {}

SetupShown_Always == TRUE

\* the setup screen (duration input, checkboxes, Start button) is rendered only
\* when not running
SetupShown == ~running

\* handleToggleCue, from a checkbox of the setup screen
HandleToggleCue(cueId) ==
    /\ SetupShown
    /\ IF cueId \in selectedCues
       THEN selectedCues' = selectedCues \ {cueId}
       ELSE selectedCues' = selectedCues \cup {cueId}
    /\ UNCHANGED <<duration, timeLeft, running, trapMessages, intervalRef,
                   mainAudioRef, cueScheduleRef, playedCuesRef, cueAudioRefs,
                   timers, nextHandle, pendingTicks, pendingStop, effectPending,
                   playCount, trapSoundPlays>>
    /\ UNCHANGED <<socketConnected, brokenAudio, playFailed>>

\* handleDurationChange, from the duration input of the setup screen
HandleDurationChange(input) ==
    /\ SetupShown
    /\ LET value == [nan |-> input.nan, number |-> input.number] IN
       IF Positive(value) THEN duration' = value.number ELSE duration' = duration
    /\ UNCHANGED <<selectedCues, timeLeft, running, trapMessages, intervalRef,
                   mainAudioRef, cueScheduleRef, playedCuesRef, cueAudioRefs,
                   timers, nextHandle, pendingTicks, pendingStop, effectPending,
                   playCount, trapSoundPlays>>
    /\ UNCHANGED <<socketConnected, brokenAudio, playFailed>>

HandleStart_ClearsPlayed ==
    /\ SetupShown
    /\ nextHandle < MaxRuns
    /\ TotalSeconds(duration) <= Sec(MaxRunSeconds)
    /\ running' = TRUE
    /\ timeLeft' = TotalSeconds(duration)
    /\ cueAudioRefs' = cueAudioRefs \cup selectedCues
    /\ cueScheduleRef' = BuildSchedule(selectedCues)
    /\ mainAudioRef' = "playing"
    /\ nextHandle' = nextHandle + 1
    /\ intervalRef' = nextHandle + 1
    /\ timers' = timers \cup {nextHandle + 1}
    /\ effectPending' = TRUE
    /\ pendingStop' = FALSE
    /\ playCount' = [c \in CueIds |-> 0]
    /\ playFailed' = {}
    /\ playedCuesRef' = {}
    /\ UNCHANGED <<duration, selectedCues, trapMessages,
                   pendingTicks, trapSoundPlays, socketConnected, brokenAudio>>

\* handleStart, from the Start button of the setup screen
HandleStart ==
    /\ SetupShown
    /\ nextHandle < MaxRuns
    /\ TotalSeconds(duration) <= Sec(MaxRunSeconds)
    /\ running' = TRUE
    /\ timeLeft' = TotalSeconds(duration)
    /\ cueAudioRefs' = cueAudioRefs \cup selectedCues
    /\ cueScheduleRef' = BuildSchedule(selectedCues)
    /\ mainAudioRef' = "playing"
    /\ nextHandle' = nextHandle + 1
    /\ intervalRef' = nextHandle + 1
    /\ timers' = timers \cup {nextHandle + 1}
    /\ effectPending' = TRUE
    /\ pendingStop' = FALSE
    /\ playCount' = [c \in CueIds |-> 0]
    /\ playFailed' = {}
    /\ UNCHANGED <<duration, selectedCues, trapMessages, playedCuesRef,
                   pendingTicks, trapSoundPlays, socketConnected, brokenAudio>>

\* the callback of a live interval timer: setTimeLeft((prev) => prev - 1) queues an update
IntervalCallback ==
    /\ \E handle \in timers : TRUE
    /\ pendingTicks < MaxPending
    /\ timeLeft - Sec(pendingTicks) > 0 - Sec(MaxOverrun)
    /\ pendingTicks' = pendingTicks + 1
    /\ UNCHANGED <<duration, selectedCues, timeLeft, running, trapMessages,
                   intervalRef, mainAudioRef, cueScheduleRef, playedCuesRef,
                   cueAudioRefs, timers, nextHandle, pendingStop, effectPending,
                   playCount, trapSoundPlays, socketConnected, brokenAudio,
                   playFailed>>

\* the dependency array [timeLeft, running]
DepsChanged(oldTimeLeft, oldRunning, newTimeLeft, newRunning) ==
    oldTimeLeft # newTimeLeft \/ oldRunning # newRunning

\* a render commits the queued updates; effects scheduled earlier have run
Render ==
    /\ pendingTicks > 0 \/ pendingStop
    /\ ~effectPending
    /\ timeLeft' = timeLeft - Sec(pendingTicks)
    /\ running' = IF pendingStop THEN FALSE ELSE running
    /\ pendingTicks' = 0
    /\ pendingStop' = FALSE
    /\ effectPending' = DepsChanged(timeLeft, running, timeLeft', running')
    /\ UNCHANGED <<duration, selectedCues, trapMessages, intervalRef,
                   mainAudioRef, cueScheduleRef, playedCuesRef, cueAudioRefs,
                   timers, nextHandle, playCount, trapSoundPlays,
                   socketConnected, brokenAudio, playFailed>>

ShouldTrigger_AtOrBelow(t, triggerAt) == t <= triggerAt

\* const shouldTrigger = timeLeft === triggerAt
ShouldTrigger(t, triggerAt) == t = triggerAt

NotPlayedYet_Always(cueId, played) == TRUE

\* const notPlayedYet = !playedCuesRef.current.has(cueId)
NotPlayedYet(cueId, played) == cueId \notin played

\* the entries of the schedule for which the loop body's condition holds
Firing ==
    {c \in DOMAIN cueScheduleRef :
        ShouldTrigger(timeLeft, cueScheduleRef[c]) /\ NotPlayedYet(c, playedCuesRef)}

EffectBody_MarkOnSuccess ==
    IF ~running
    THEN UNCHANGED <<timers, pendingStop, mainAudioRef, playedCuesRef, playCount,
                     playFailed>>
    ELSE /\ IF timeLeft = 0
            THEN /\ timers' = timers \ {intervalRef}
                 /\ pendingStop' = TRUE
                 /\ mainAudioRef' = IF mainAudioRef = "null" THEN "null" ELSE "paused"
            ELSE UNCHANGED <<timers, pendingStop, mainAudioRef>>
         /\ playedCuesRef' = playedCuesRef \cup (Firing \ brokenAudio)
         /\ playCount' = [c \in CueIds |->
                            IF c \in Firing /\ c \in cueAudioRefs
                            THEN playCount[c] + 1 ELSE playCount[c]]
         /\ playFailed' = playFailed \cup (Firing \cap cueAudioRefs \cap brokenAudio)

\* the body of the cue effect
EffectBody ==
    IF ~running
    THEN UNCHANGED <<timers, pendingStop, mainAudioRef, playedCuesRef, playCount,
                     playFailed>>
    ELSE /\ IF timeLeft = 0
            THEN /\ timers' = timers \ {intervalRef}
                 /\ pendingStop' = TRUE
                 /\ mainAudioRef' = IF mainAudioRef = "null" THEN "null" ELSE "paused"
            ELSE UNCHANGED <<timers, pendingStop, mainAudioRef>>
         /\ playedCuesRef' = playedCuesRef \cup Firing
         /\ playCount' = [c \in CueIds |->
                            IF c \in Firing /\ c \in cueAudioRefs
                            THEN playCount[c] + 1 ELSE playCount[c]]
         /\ playFailed' = playFailed \cup (Firing \cap cueAudioRefs \cap brokenAudio)

\* the cue effect runs after the commit that changed timeLeft or running
Effect ==
    /\ effectPending
    /\ effectPending' = FALSE
    /\ EffectBody
    /\ UNCHANGED <<duration, selectedCues, timeLeft, running, trapMessages,
                   intervalRef, cueScheduleRef, cueAudioRefs, nextHandle,
                   pendingTicks, trapSoundPlays, socketConnected, brokenAudio>>

\* React executes the effect again with unchanged dependencies
EffectRerun ==
    /\ running
    /\ ~effectPending
    /\ EffectBody
    /\ UNCHANGED <<duration, selectedCues, timeLeft, running, trapMessages,
                   intervalRef, cueScheduleRef, cueAudioRefs, nextHandle,
                   pendingTicks, effectPending, trapSoundPlays, socketConnected,
                   brokenAudio>>

TrapAppend_Prepend(prev, message) == <<message>> \o prev

\* setTrapMessages(prev => [...prev, data.message])
TrapAppend(prev, message) == Append(prev, message)

\* the socket connects (io(...) connects in the background and reconnects
\* after a failure); the component registers no handler for it
SocketConnect ==
    /\ ~socketConnected
    /\ socketConnected' = TRUE
    /\ UNCHANGED <<duration, selectedCues, timeLeft, running, trapMessages,
                   intervalRef, mainAudioRef, cueScheduleRef, playedCuesRef,
                   cueAudioRefs, timers, nextHandle, pendingTicks, pendingStop,
                   effectPending, playCount, trapSoundPlays, brokenAudio,
                   playFailed>>

\* the connection fails or is lost; the component registers no handler for it
SocketDisconnect ==
    /\ socketConnected
    /\ socketConnected' = FALSE
    /\ UNCHANGED <<duration, selectedCues, timeLeft, running, trapMessages,
                   intervalRef, mainAudioRef, cueScheduleRef, playedCuesRef,
                   cueAudioRefs, timers, nextHandle, pendingTicks, pendingStop,
                   effectPending, playCount, trapSoundPlays, brokenAudio,
                   playFailed>>

TrapTriggered_StopsRun(message) ==
    /\ socketConnected
    /\ Len(trapMessages) < MaxTrapMessages
    /\ trapMessages' = Append(trapMessages, message)
    /\ trapSoundPlays' = trapSoundPlays + 1
    /\ pendingStop' = running
    /\ UNCHANGED <<duration, selectedCues, timeLeft, running, intervalRef,
                   mainAudioRef, cueScheduleRef, playedCuesRef, cueAudioRefs,
                   timers, nextHandle, pendingTicks, effectPending,
                   playCount, socketConnected, brokenAudio, playFailed>>

\* socket.on('trap_triggered', ...): an event arrives over the connected socket
TrapTriggered(message) ==
    /\ socketConnected
    /\ Len(trapMessages) < MaxTrapMessages
    /\ trapMessages' = TrapAppend(trapMessages, message)
    /\ trapSoundPlays' = trapSoundPlays + 1
    /\ UNCHANGED <<duration, selectedCues, timeLeft, running, intervalRef,
                   mainAudioRef, cueScheduleRef, playedCuesRef, cueAudioRefs,
                   timers, nextHandle, pendingTicks, pendingStop, effectPending,
                   playCount, socketConnected, brokenAudio, playFailed>>

\* ids outside the catalog, as inputs of the schedule construction
Id0min == <<"0", "m", "i", "n">>
Id05min == <<"0", "5", "m", "i", "n">>
IdMin == <<"m", "i", "n">>
Id5mins == <<"5", "m", "i", "n", "s">>
IdA5min == <<"a", "5", "m", "i", "n">>
IdUpperBlackout == <<"B", "l", "a", "c", "k", "o", "u", "t">>

IdPool == CueIds \cup {Id0min, Id05min, IdMin, Id5mins, IdA5min, IdUpperBlackout}

\* the schedule construction of handleStart applied to any selection of ids:
\* a one-minute countdown is started once from each selection
ScheduleInit ==
    /\ duration = Min(1)
    /\ selectedCues \in SUBSET IdPool
    /\ timeLeft = 0
    /\ running = FALSE
    /\ trapMessages = <<>>
    /\ intervalRef = 0
    /\ mainAudioRef = "null"
    /\ cueScheduleRef = [c \in {} |-> 0]
    /\ playedCuesRef = {}
    /\ cueAudioRefs = {}
    /\ timers = {}
    /\ nextHandle = 0
    /\ pendingTicks = 0
    /\ pendingStop = FALSE
    /\ effectPending = FALSE
    /\ playCount = [c \in CueIds |-> 0]
    /\ trapSoundPlays = 0
    /\ socketConnected = FALSE
    /\ brokenAudio = {}
    /\ playFailed = {}

ScheduleNext == HandleStart

ScheduleSpec == ScheduleInit /\ [][ScheduleNext]_vars

\* const progressPercent = running ? (1 - timeLeft / (duration * 60)) * 100 : 0,
\* rounded down to a whole percent
ProgressPercent ==
    IF running
    THEN ((TotalSeconds(duration) - timeLeft) * 100) \div TotalSeconds(duration)
    ELSE 0

\* the timer, the renders and the cue effect
Countdown ==
    \/ HandleStart
    \/ IntervalCallback
    \/ Render
    \/ Effect
    \/ EffectRerun

\* the countdown, driven from the setup screen
Next ==
    \/ \E cueId \in ToggledCues : HandleToggleCue(cueId)
    \/ \E input \in DurationInputs : HandleDurationChange(input)
    \/ Countdown

Spec == Init /\ [][Next]_vars

\* the cue files whose play() may be rejected, and the inputs of the sessions
\* explored with rejected plays
PlayBrokenCues == {IdBlackout, IdGameover}

PlayRunInputs == {input \in DurationInputs : input.text \in {"0.5", "1"}}

\* the initial state, with any set of the cue files failing to play
PlayInit ==
    /\ duration = Min(60)
    /\ selectedCues = {}
    /\ timeLeft = 0
    /\ running = FALSE
    /\ trapMessages = <<>>
    /\ intervalRef = 0
    /\ mainAudioRef = "null"
    /\ cueScheduleRef = [c \in {} |-> 0]
    /\ playedCuesRef = {}
    /\ cueAudioRefs = {}
    /\ timers = {}
    /\ nextHandle = 0
    /\ pendingTicks = 0
    /\ pendingStop = FALSE
    /\ effectPending = FALSE
    /\ playCount = [c \in CueIds |-> 0]
    /\ trapSoundPlays = 0
    /\ socketConnected = FALSE
    /\ brokenAudio \in SUBSET PlayBrokenCues
    /\ playFailed = {}

\* the countdown with cue sounds that fail to play
PlayNext ==
    \/ \E cueId \in PlayBrokenCues : HandleToggleCue(cueId)
    \/ \E input \in PlayRunInputs : HandleDurationChange(input)
    \/ Countdown

PlaySpec == PlayInit /\ [][PlayNext]_vars

\* the countdown together with the trap socket
TrapNext ==
    \/ \E cueId \in TrapRunCues : HandleToggleCue(cueId)
    \/ \E input \in TrapRunInputs : HandleDurationChange(input)
    \/ Countdown
    \/ SocketConnect
    \/ SocketDisconnect
    \/ \E message \in TrapPayloads : TrapTriggered(message)

TrapSpec == Init /\ [][TrapNext]_vars

----------------------------------------------------------------------------
(* Claims *)

\* C1: within one run each cue id is played at most once, over any sequence
\* of ticks, renders and executions of the effect (re-executions with an
\* unchanged timeLeft included).
C1_AtMostOncePerRun == \A c \in CueIds : playCount[c] <= 1

\* a cue was played at its trigger time and the countdown went on below it
C1_Witness ==
    \E c \in DOMAIN cueScheduleRef :
        /\ running
        /\ ~effectPending
        /\ playCount[c] = 1
        /\ timeLeft < cueScheduleRef[c]

\* C2: right after handleStart, before the first effect and the first tick
\* of the run, the fired set is empty, in the first and in every later run.
C2_FiredSetEmptyAtStart ==
    (running /\ effectPending /\ timeLeft = TotalSeconds(duration))
        => playedCuesRef = {}

\* C3: in every run, once a tick has set timeLeft to the trigger time of a
\* scheduled cue and the effect for that value has run, the cue has been
\* played in that run.
C3_PlayedAtTrigger ==
    \A c \in DOMAIN cueScheduleRef :
        (/\ running
         /\ ~effectPending
         /\ timeLeft = cueScheduleRef[c]
         /\ timeLeft < TotalSeconds(duration))
            => playCount[c] >= 1

\* C4 as stated: a cue is played only at a step where timeLeft equals its
\* trigger time and that value was produced by a tick, never on the start
\* step (timeLeft = totalSeconds).
C4_PlayedOnlyAfterTick ==
    [][\A c \in CueIds :
          playCount'[c] > playCount[c] =>
              /\ c \in DOMAIN cueScheduleRef
              /\ timeLeft = cueScheduleRef[c]
              /\ timeLeft < TotalSeconds(duration)]_vars

\* C4 as amended: a cue is played only at a step of a run where timeLeft
\* equals its trigger time; the start step is such a step when the trigger
\* time equals totalSeconds.
C4_PlayedOnlyAtTrigger ==
    [][\A c \in CueIds :
          playCount'[c] > playCount[c] =>
              /\ running
              /\ c \in DOMAIN cueScheduleRef
              /\ timeLeft = cueScheduleRef[c]]_vars

\* one cue was played on the start step and another one after ticks
C4_Witness ==
    \E c, d \in DOMAIN cueScheduleRef :
        /\ running
        /\ cueScheduleRef[c] = TotalSeconds(duration)
        /\ cueScheduleRef[d] < TotalSeconds(duration)
        /\ playCount[c] = 1
        /\ playCount[d] = 1

\* C5: once timeLeft is 0 in a run, no tick changes it afterwards, whether
\* delivered or already queued: only a new start sets timeLeft again.
C5_NoTickAfterZero ==
    [][(nextHandle > 0 /\ timeLeft = 0 /\ nextHandle' = nextHandle)
          => timeLeft' = 0]_vars

\* C6: while a run is in progress no start takes place: no timer is created,
\* the schedule and the interval handle stay, timeLeft is not set back up
\* and nothing leaves the fired set.
C6_NoStartWhileRunning ==
    [][running =>
          /\ nextHandle' = nextHandle
          /\ intervalRef' = intervalRef
          /\ cueScheduleRef' = cueScheduleRef
          /\ timeLeft' <= timeLeft
          /\ playedCuesRef \subseteq playedCuesRef']_vars

\* a run is in progress, after some ticks
C6_Witness ==
    /\ running
    /\ ~effectPending
    /\ 0 < timeLeft
    /\ timeLeft < TotalSeconds(duration)

\* C7, in the form a finite run refutes: a run ends only when the effect
\* observes timeLeft = 0 and ticks only lower timeLeft, so a run that ends
\* never has timeLeft below 0 while running.
C7_RunReachesZero == running => timeLeft >= 0

\* C8 as stated: every entry of the schedule of a run satisfies
\* 0 <= triggerAt <= totalSeconds.
C8_TriggerWithinRun ==
    running =>
        \A c \in DOMAIN cueScheduleRef :
            0 <= cueScheduleRef[c] /\ cueScheduleRef[c] <= TotalSeconds(duration)

\* C8 as amended: every entry of the schedule satisfies 0 <= triggerAt
\* (triggerAt may exceed totalSeconds).
C8_TriggerNonNegative ==
    \A c \in DOMAIN cueScheduleRef : 0 <= cueScheduleRef[c]

\* a run whose schedule holds a trigger time above totalSeconds
C8_Witness ==
    /\ running
    /\ \E c \in DOMAIN cueScheduleRef : cueScheduleRef[c] > TotalSeconds(duration)

\* C9: a scheduled cue whose trigger time is above the run's totalSeconds is
\* not played at any step of that run and is not added to the fired set.
C9_UnreachableNeverPlayed ==
    [][\A c \in DOMAIN cueScheduleRef' :
          (running' /\ cueScheduleRef'[c] > TotalSeconds(duration')) =>
              /\ playCount'[c] = 0
              /\ (c \in playedCuesRef' => c \in playedCuesRef)]_vars

\* a 30-second run with blackout selected has counted down to 0
C9_Witness ==
    /\ running
    /\ ~effectPending
    /\ IdBlackout \in DOMAIN cueScheduleRef
    /\ TotalSeconds(duration) = Sec(30)
    /\ timeLeft = 0
    /\ playCount[IdBlackout] = 0

\* C10: a trap_triggered event can be delivered over the connected socket in
\* every state (idle, running, after a run); every step either leaves the log and the number
\* of trap sounds alone, or appends one message at the end of the log and
\* plays the trap sound once.
C10_TrapLogAppendOnly ==
    /\ []((socketConnected /\ Len(trapMessages) < MaxTrapMessages)
            => ENABLED (\E message \in TrapPayloads : TrapTriggered(message)))
    /\ [][\/ /\ trapMessages' = trapMessages
             /\ trapSoundPlays' = trapSoundPlays
          \/ /\ \E message \in TrapPayloads :
                    trapMessages' = Append(trapMessages, message)
             /\ trapSoundPlays' = trapSoundPlays + 1]_vars

\* two different messages, the first received before a run and kept, in
\* order, into the second run
C10_Witness ==
    /\ running
    /\ nextHandle = 2
    /\ Len(trapMessages) = 2
    /\ trapMessages[1] # trapMessages[2]
    /\ trapSoundPlays = 2

\* C11: a step of the trap socket (an event handled, a connect, a disconnect)
\* leaves the countdown alone: running, timeLeft, the duration, the
\* selection, the schedule, the fired set, the plays of the run, the interval
\* handle, the live timers and the queued updates are unchanged.
C11_BridgeLeavesCountdown ==
    [][(\/ trapMessages' # trapMessages
        \/ trapSoundPlays' # trapSoundPlays
        \/ socketConnected' # socketConnected)
          => UNCHANGED <<running, timeLeft, duration, selectedCues,
                         cueScheduleRef, playedCuesRef, playCount, intervalRef,
                         timers, pendingTicks, pendingStop, effectPending>>]_vars

\* a run that received a trap message and lost the connection has played
\* gameover and is still counting down
C11_Witness ==
    /\ running
    /\ 0 < timeLeft
    /\ Len(trapMessages) >= 1
    /\ ~socketConnected
    /\ playCount[IdGameover] = 1

\* C12: after any sequence of duration inputs (empty, non-numeric, negative,
\* zero, fractional, whole) the duration stays above 0, and every start
\* begins a run with timeLeft = duration * 60 above 0.
C12_StartOnlyPositive ==
    [][/\ duration' > 0
       /\ nextHandle' > nextHandle => (running' /\ timeLeft' > 0)]_vars

\* a run started with the smallest duration the input accepted
C12_Witness ==
    /\ running
    /\ duration = 1
    /\ timeLeft > 0
    /\ pendingTicks = 0

\* the reference mapping, written out for the ids of IdPool: the ids of the
\* forms blackout, gameover and <N>min with their trigger times in seconds
C13_Reference ==
    [c \in {IdBlackout, IdGameover, Id40min, Id30min, Id10min, Id5min, Id0min,
            Id05min} |->
        IF c = IdBlackout THEN 60
        ELSE IF c = IdGameover THEN 5
        ELSE IF c = Id40min THEN 2400
        ELSE IF c = Id30min THEN 1800
        ELSE IF c = Id10min THEN 600
        ELSE IF c = Id0min THEN 0
        ELSE 300]

\* C13: the schedule built at start has exactly the selected ids of the forms
\* blackout, gameover and <N>min as keys, with the reference trigger times
\* 60, 5 and N*60; every other selected id is absent.
C13_ScheduleIsReference ==
    running =>
        /\ DOMAIN cueScheduleRef = selectedCues \cap DOMAIN C13_Reference
        /\ \A c \in DOMAIN cueScheduleRef : cueScheduleRef[c] = Sec(C13_Reference[c])

\* a schedule built from a selection that holds ids of every kind
C13_Witness ==
    /\ running
    /\ {IdBlackout, IdGameover, Id5min, Id05min, Id0min, IdA5min, IdMin,
        Id5mins, IdUpperBlackout} \subseteq selectedCues
    /\ DOMAIN cueScheduleRef # selectedCues

\* C14: in every running state 0 <= timeLeft <= totalSeconds, so that the
\* progress stays within [0, 100] percent; when not running the progress is 0.
C14_TimeLeftWithinRun ==
    /\ running => (0 <= timeLeft /\ timeLeft <= TotalSeconds(duration))
    /\ 0 <= ProgressPercent
    /\ ProgressPercent <= 100
    /\ ~running => ProgressPercent = 0

\* C15: ticks are processed one at a time: within a run every change of
\* timeLeft happens after the effect for the previous value has run and
\* lowers timeLeft by exactly one second, so that the effect observes every
\* value.
C15_OneTickPerCommit ==
    [][(running /\ nextHandle' = nextHandle /\ timeLeft' # timeLeft)
          => (~effectPending /\ timeLeft' = timeLeft - Sec(1))]_vars

\* C16: while a run is in progress the selection and the duration do not
\* change, and the schedule stays the one built from the selection at start:
\* its keys are the selected cues.
C16_SetupFrozenWhileRunning ==
    [][/\ running => /\ selectedCues' = selectedCues
                     /\ duration' = duration
                     /\ cueScheduleRef' = cueScheduleRef
       /\ running' => DOMAIN cueScheduleRef' = selectedCues']_vars

\* a run with two cues selected, some ticks after the start
C16_Witness ==
    /\ running
    /\ Cardinality(selectedCues) = 2
    /\ timeLeft < TotalSeconds(duration)
    /\ 0 < timeLeft

\* C17: the schedule of a run depends only on the selection at its start:
\* its keys are the cues selected at that start, so that no entry of the
\* previous run survives, and a cue scheduled in the previous run and in
\* this one has the same trigger time in both.
C17_ScheduleFromSelectionOnly ==
    [][nextHandle' > nextHandle =>
          /\ DOMAIN cueScheduleRef' = selectedCues
          /\ \A c \in DOMAIN cueScheduleRef' \cap DOMAIN cueScheduleRef :
                cueScheduleRef'[c] = cueScheduleRef[c]]_vars

\* a second run whose schedule lacks a cue that the first run scheduled and
\* played, and keeps another one
C17_Witness ==
    /\ running
    /\ nextHandle = 2
    /\ \E c \in playedCuesRef : c \notin DOMAIN cueScheduleRef
    /\ \E c \in playedCuesRef : c \in DOMAIN cueScheduleRef

\* C18: a rejected play() does not abort the tick or the run: once the
\* effect has run at the trigger time of a scheduled cue the cue is in the
\* fired set, whether its play() was rejected or not (so are all the cues
\* matching that value); no cue is played more than once in a run; and the
\* interval timer stays live until timeLeft reaches 0.
C18_FailureDoesNotAbort ==
    /\ \A c \in DOMAIN cueScheduleRef :
          (running /\ ~effectPending /\ timeLeft = cueScheduleRef[c])
              => c \in playedCuesRef
    /\ \A c \in CueIds : playCount[c] <= 1
    /\ playFailed \subseteq playedCuesRef
    /\ (running /\ timeLeft > 0) => intervalRef \in timers

\* a run in which the plays of blackout and of gameover were both rejected
\* has counted down to 0
C18_Witness ==
    /\ running
    /\ timeLeft = 0
    /\ playFailed = {IdBlackout, IdGameover}
    /\ playCount[IdBlackout] = 1
    /\ playCount[IdGameover] = 1

\* C19: at most one interval timer is live at any time; a live timer is the
\* one held by intervalRef and is live only while running is true; and once
\* the effect has run at timeLeft 0 the timer of the run has been cleared.
C19_AtMostOneTimer ==
    /\ Cardinality(timers) <= 1
    /\ timers \subseteq {intervalRef}
    /\ timers # {} => running
    /\ (running /\ ~effectPending /\ timeLeft = 0) => timers = {}

\* the second run is counting down on its own timer, the first run's timer
\* having been cleared
C19_Witness ==
    /\ running
    /\ nextHandle = 2
    /\ timers = {2}
    /\ timeLeft < TotalSeconds(duration)

\* C20: no step removes a cue id from playedCuesRef, and no step plays a cue
\* that is already in playedCuesRef, in this run or in a later one.
C20_FiredSetOnlyGrows ==
    [][/\ playedCuesRef \subseteq playedCuesRef'
       /\ \A c \in playedCuesRef : playCount'[c] <= playCount[c]]_vars

\* with a trap event logged, the second run has passed the trigger time of a
\* cue that was played in the first run, and has not played it
C20_Witness ==
    /\ running
    /\ nextHandle = 2
    /\ ~effectPending
    /\ Len(trapMessages) > 0
    /\ \E c \in DOMAIN cueScheduleRef :
          /\ c \in playedCuesRef
          /\ timeLeft <= cueScheduleRef[c]
          /\ playCount[c] = 0

====
